---- MODULE Spec2Model ----
(***************************************************************************)
(* dtsearch (src/index.ts): search-result records rendered as a table that *)
(* fits the terminal.  Strings are TLA+ strings (Len, SubSeq and \o act on *)
(* them as on JavaScript strings, one position per UTF-16 code unit).      *)
(***************************************************************************)
EXTENDS Integers, Sequences, FiniteSets, TLC

VARIABLES
    pc,            \* position of the run / of the function under check
    program,       \* commander's parsed options (program.yarn, program.npm, ...)
    columns,       \* the column catalog, a mutable module-level array
    stdoutColumns, \* process.stdout.columns (0: undefined or zero, both falsy)
    filters,       \* the filters applyFlags returned
    hits,          \* result.hits of the search
    widths,        \* printTable's widths, the argument of pickColumns
    colIndices,    \* what pickColumns returned
    path,          \* which return of pickColumns was taken
    pickedCols,    \* printTable's pickedCols
    out,           \* lines written with console.log, in order
    err,           \* what the final .catch wrote with console.error
    vals,          \* formatColumn: the column's values (header first)
    colSpec,       \* formatColumn: the column's spec
    formatted,     \* formatColumn: its result
    hlVal,         \* highlightValue: val
    hlResult,      \* highlightValue: highlightResult
    chalkLevel,    \* chalk's colour level (0: no escape codes are written)
    hlOut          \* highlightValue: its result

vars == <<pc, program, columns, stdoutColumns, filters, hits, widths, colIndices, path,
          pickedCols, out, err, vals, colSpec, formatted, hlVal, hlResult,
          chalkLevel, hlOut>>

----------------------------------------------------------------------------
(* Bounds of the model. *)

\* formatColumn: longest cell, most rows below the header, largest maxWidth
MaxCellLen == 3
MaxRows == 1
MaxMaxWidth == 3
\* highlightValue: longest value, longest matched word, most matched words
MaxValLen == 3
MaxWordLen == 2
MaxWords == 2
\* pickColumns on small catalogs: columns, widest column, widest terminal
NumCols == 3
MaxWidth == 2
MaxTermCols == 3
\* largest value the solver tries for one integer variable
MaxUnits == 2
\* the run: most records the search returns
MaxHits == 2

----------------------------------------------------------------------------
(* JavaScript's string and array primitives. *)

Min(a, b) == IF a <= b THEN a ELSE b

\* _.max of a non-empty collection of numbers
MaxOf(S) == CHOOSE m \in S : \A x \in S : x <= m

CharAt(s, i) == SubSeq(s, i, i)

RECURSIVE Spaces(_)
Spaces(n) == IF n <= 0 THEN "" ELSE " " \o Spaces(n - 1)

\* v.slice(0, n), n >= 0
Slice(v, n) == SubSeq(v, 1, Min(Len(v), n))

\* v.padStart(n): spaces in front, none when v is already n long or longer
PadStart(v, n) == Spaces(n - Len(v)) \o v

\* v.padEnd(n)
PadEnd(v, n) == v \o Spaces(n - Len(v))

LowerChars == "abcdefghijklmnopqrstuvwxyz"
UpperChars == "ABCDEFGHIJKLMNOPQRSTUVWXYZ"

UpperChar(c) ==
    IF \E i \in 1..Len(LowerChars) : CharAt(LowerChars, i) = c
    THEN CharAt(UpperChars, CHOOSE i \in 1..Len(LowerChars) : CharAt(LowerChars, i) = c)
    ELSE c

RECURSIVE ToUpperCase(_)
ToUpperCase(s) ==
    IF s = "" THEN "" ELSE UpperChar(CharAt(s, 1)) \o ToUpperCase(SubSeq(s, 2, Len(s)))

\* all strings over Chars of length at most n
RECURSIVE Strs(_, _)
Strs(Chars, n) ==
    IF n = 0 THEN {""}
    ELSE LET S == Strs(Chars, n - 1) IN S \cup {s \o c : s \in S, c \in Chars}

\* the function f with its values computed once (TLC would otherwise compute
\* f[x] anew at every use)
RECURSIVE FcnOf(_, _)
FcnOf(f, D) ==
    IF D = {} THEN <<>>
    ELSE LET x == CHOOSE y \in D : TRUE IN (x :> f[x]) @@ FcnOf(f, D \ {x})

Evaluated(f) == FcnOf(f, DOMAIN f)

\* all sequences over S of length at most n
RECURSIVE SeqsUpTo(_, _)
SeqsUpTo(S, n) ==
    IF n = 0 THEN {<<>>}
    ELSE LET T == SeqsUpTo(S, n - 1) IN T \cup {Append(t, x) : t \in T, x \in S}

----------------------------------------------------------------------------
(* formatColumn *)

\* Math.min(maxLen, maxWidth || maxLen): an undefined maxWidth and 0 are both falsy
ColumnWidth(vs, spec) ==
    LET maxLen == MaxOf({Len(vs[k]) : k \in 1..Len(vs)})
    IN  Min(maxLen, IF spec.maxWidth # 0 THEN spec.maxWidth ELSE maxLen)

AlignCellSwapped(v, width, align) ==
    IF align = "right" THEN PadEnd(Slice(v, width), width)
    ELSE PadStart(Slice(v, width), width)

AlignCell(v, width, align) ==
    IF align = "right" THEN PadStart(Slice(v, width), width)
    ELSE PadEnd(Slice(v, width), width)

formatColumn(vs, spec) ==
    LET width == ColumnWidth(vs, spec)
    IN  [k \in 1..Len(vs) |-> AlignCell(vs[k], width, spec.align)]

----------------------------------------------------------------------------
(* highlightValue *)

\* U+001B, the escape character that starts a terminal styling code
Esc == "^"
BoldOpen == Esc \o "[1m"
BoldClose == Esc \o "[22m"

\* chalk.bold: the styling codes around the text, or the text alone when
\* chalk found no colour support
chalkBold(s, level) == IF level = 0 THEN s ELSE BoldOpen \o s \o BoldClose

\* the 'i' flag: characters compare by their upper-case form
MatchesAt(val, word, i) ==
    /\ i + Len(word) - 1 <= Len(val)
    /\ \A k \in 1..Len(word) :
          UpperChar(CharAt(val, i + k - 1)) = UpperChar(CharAt(word, k))

\* val.replace(new RegExp(word, 'ig'), repl) for a word of letters and digits:
\* every occurrence, found left to right, none overlapping
RECURSIVE ReplaceFrom(_, _, _, _)
ReplaceFrom(val, word, repl, i) ==
    IF i > Len(val) THEN ""
    ELSE IF MatchesAt(val, word, i)
         THEN repl \o ReplaceFrom(val, word, repl, i + Len(word))
         ELSE CharAt(val, i) \o ReplaceFrom(val, word, repl, i + 1)

RECURSIVE HighlightWords(_, _, _, _)
HighlightWords(val, words, k, level) ==
    IF k > Len(words) THEN val
    ELSE HighlightWords(ReplaceFrom(val, words[k], chalkBold(words[k], level), 1),
                        words, k + 1, level)

highlightValue(val, highlightResult, level) ==
    IF ~highlightResult.present \/ highlightResult.matchLevel = "none" THEN val
    ELSE IF highlightResult.fullyHighlighted THEN chalkBold(val, level)
    ELSE HighlightWords(val, highlightResult.matchedWords, 1, level)

----------------------------------------------------------------------------
(* pickColumns.  Columns are numbered from 1 here (from 0 in the source);   *)
(* ColKey(i) is the object key '' + i of column i.  An undefined mutexGroup *)
(* is "".                                                                   *)

ColKey(i) == ToString(i)

RECURSIVE SumOver(_, _)
SumOver(f, S) ==
    IF S = {} THEN 0
    ELSE LET x == CHOOSE y \in S : TRUE IN f[x] + SumOver(f, S \ {x})

\* new Set(columns.map(c => c.mutexGroup).filter(isNonNullish))
MutexGroups(cols) == {cols[i].mutexGroup : i \in 1..Len(cols)} \ {""}

\* process.stdout.columns || 80
DefaultColumns == 80
Budget(termCols) == IF termCols # 0 THEN termCols ELSE DefaultColumns

\* constraints: {width: {max: 1 + budget}}, then one {max: 1} per mutex group,
\* then one {max: 1} per column; a later assignment to the same key wins
LPConstraintsNoSeparator(cols, termCols) ==
    [n \in {"width"} \cup MutexGroups(cols) \cup {ColKey(i) : i \in 1..Len(cols)} |->
        IF n \in {ColKey(i) : i \in 1..Len(cols)} THEN 1
        ELSE IF n \in MutexGroups(cols) THEN 1
        ELSE Budget(termCols)]

LPConstraints(cols, termCols) ==
    [n \in {"width"} \cup MutexGroups(cols) \cup {ColKey(i) : i \in 1..Len(cols)} |->
        IF n \in {ColKey(i) : i \in 1..Len(cols)} THEN 1
        ELSE IF n \in MutexGroups(cols) THEN 1
        ELSE 1 + Budget(termCols)]

\* variables: per column {importance, width: 1 + widths[i], [i]: 1, ...one 0/1
\* entry per mutex group}; a later key of the object literal wins
LPVariablesNoSeparator(cols, ws) ==
    [v \in {ColKey(i) : i \in 1..Len(cols)} |->
        LET i == CHOOSE j \in 1..Len(cols) : ColKey(j) = v
        IN  [a \in {"importance", "width", v} \cup MutexGroups(cols) |->
                IF a \in MutexGroups(cols)
                THEN (IF cols[i].mutexGroup = a THEN 1 ELSE 0)
                ELSE IF a = v THEN 1
                ELSE IF a = "width" THEN ws[i]
                ELSE cols[i].importance]]

LPVariables(cols, ws) ==
    [v \in {ColKey(i) : i \in 1..Len(cols)} |->
        LET i == CHOOSE j \in 1..Len(cols) : ColKey(j) = v
        IN  [a \in {"importance", "width", v} \cup MutexGroups(cols) |->
                IF a \in MutexGroups(cols)
                THEN (IF cols[i].mutexGroup = a THEN 1 ELSE 0)
                ELSE IF a = v THEN 1
                ELSE IF a = "width" THEN 1 + ws[i]
                ELSE cols[i].importance]]

\* ints: columns.map((c, i) => '' + i).  The solver reads ints[id], which for
\* the id '' + i is the non-empty (truthy) string at index i: every variable
\* is an integer variable.
LPModelMin(cols, ws, termCols) ==
    [opType |-> "min", optimize |-> "importance",
     constraints |-> Evaluated(LPConstraints(cols, termCols)),
     variables |-> LET vs == LPVariables(cols, ws)
                   IN  Evaluated([v \in DOMAIN vs |-> Evaluated(vs[v])]),
     ints |-> {ColKey(i) : i \in 1..Len(cols)}]

LPModel(cols, ws, termCols) ==
    [opType |-> "max", optimize |-> "importance",
     constraints |-> Evaluated(LPConstraints(cols, termCols)),
     variables |-> LET vs == LPVariables(cols, ws)
                   IN  Evaluated([v \in DOMAIN vs |-> Evaluated(vs[v])]),
     ints |-> {ColKey(i) : i \in 1..Len(cols)}]

(* solver.Solve of javascript-lp-solver, by its contract: variables are     *)
(* non-negative, the listed ones integer; every constraint is an upper      *)
(* bound; the result is a best point among those that meet the constraints  *)
(* (any of them on a tie) and names only the variables that are not 0.  A   *)
(* point is the set of its <<variable, value>> pairs with value > 0.        *)

Coef(model, v, a) ==
    IF a \in DOMAIN model.variables[v] THEN model.variables[v][a] ELSE 0

PointValue(p, v) == IF \E q \in p : q[1] = v THEN (CHOOSE q \in p : q[1] = v)[2] ELSE 0

\* the integer points over the variables ids within the slack left for each
\* constraint; no coefficient of a constraint is negative here, so a value
\* that overruns a constraint cannot be repaired by the other variables
RECURSIVE IntegerPoints(_, _, _)
IntegerPoints(model, ids, slack) ==
    IF ids = {} THEN {{}}
    ELSE LET v == CHOOSE x \in ids : TRUE
             bound == DOMAIN model.variables[v] \cap DOMAIN slack
             fits(k) == \A c \in bound : k * Coef(model, v, c) <= slack[c]
             left(k) == IF k = 0 THEN slack
                        ELSE [c \in DOMAIN slack |-> slack[c] - k * Coef(model, v, c)]
         IN  UNION {
               {IF k = 0 THEN p ELSE p \cup {<<v, k>>} :
                   p \in IntegerPoints(model, ids \ {v}, left(k))}
               : k \in {k \in 0..MaxUnits : fits(k)}}

Objective(model, p) ==
    SumOver([q \in p |-> q[2] * Coef(model, q[1], model.optimize)], p)

Solve(model) ==
    LET pts == IntegerPoints(model, DOMAIN model.variables,
                             [c \in DOMAIN model.constraints |-> model.constraints[c]])
        objectives == {Objective(model, p) : p \in pts}
        best == IF model.opType = "max" THEN MaxOf(objectives)
                ELSE CHOOSE m \in objectives : \A x \in objectives : m <= x
    IN  IF pts = {} THEN {[feasible |-> FALSE, point |-> {}]}
        ELSE {[feasible |-> TRUE, point |-> p] :
                p \in {p \in pts : Objective(model, p) = best}}

\* What result.feasible can be at line 194.  The empty selection meets every
\* constraint of LPModel, so an exact solver reports feasible; the code tests
\* the flag, and the library's report of infeasibility is kept as an outcome.
SolverReports(model) == Solve(model) \cup {[feasible |-> FALSE, point |-> {}]}

\* columns.map((c, i) => i): the indices, of which the returns keep some
ColumnIndices(cols) == [i \in 1..Len(cols) |-> i]

SolverSelection(cols, result) ==
    SelectSeq(ColumnIndices(cols), LAMBDA i : PointValue(result.point, ColKey(i)) # 0)

FallbackSelectionStrict(cols) ==
    SelectSeq(ColumnIndices(cols), LAMBDA i : cols[i].importance > 25)

FallbackSelection(cols) ==
    SelectSeq(ColumnIndices(cols), LAMBDA i : cols[i].importance >= 25)

\* pickColumns(widths) with the solver's result given
pickColumns(cols, ws, termCols, result) ==
    IF result.feasible
    THEN [path |-> "solver", indices |-> SolverSelection(cols, result)]
    ELSE [path |-> "fallback", indices |-> FallbackSelection(cols)]

----------------------------------------------------------------------------
(* Values of the variables a specification does not use. *)

NoAnnotation == [present |-> FALSE, matchLevel |-> "none",
                 fullyHighlighted |-> FALSE, matchedWords |-> <<>>]

NoProgram == [yarn |-> FALSE, npm |-> FALSE, repo |-> FALSE, exact |-> FALSE,
              debug |-> FALSE, untyped |-> FALSE, dt |-> FALSE, bundled |-> FALSE,
              num |-> 0]

IdleRun ==
    /\ program = NoProgram /\ filters = "" /\ hits = <<>> /\ pickedCols = <<>>
    /\ out = <<>> /\ err = ""

IdlePick ==
    /\ columns = <<>> /\ stdoutColumns = 0 /\ widths = <<>>
    /\ colIndices = <<>> /\ path = ""

IdleFormat == vals = <<>> /\ colSpec = [maxWidth |-> 0, align |-> "none"] /\ formatted = <<>>

IdleHighlight == hlVal = "" /\ hlResult = NoAnnotation /\ chalkLevel = 0 /\ hlOut = ""

----------------------------------------------------------------------------
(* SpecFormat: formatColumn applied to every small column. *)

CellChars == {"a", "b"}

InitFormat ==
    /\ pc = "format"
    /\ vals \in SeqsUpTo(Strs(CellChars, MaxCellLen), MaxRows + 1) \ {<<>>}
    /\ colSpec \in [maxWidth : 0..MaxMaxWidth, align : {"none", "left", "right"}]
    /\ formatted = <<>>
    /\ IdleRun /\ IdlePick /\ IdleHighlight

FormatColumnStep ==
    /\ pc = "format"
    /\ formatted' = formatColumn(vals, colSpec)
    /\ pc' = "formatted"
    /\ UNCHANGED <<program, columns, stdoutColumns, filters, hits, widths, colIndices, path,
                   pickedCols, out, err, vals, colSpec, hlVal, hlResult,
                   chalkLevel, hlOut>>

NextFormat == FormatColumnStep

SpecFormat == InitFormat /\ [][NextFormat]_vars

----------------------------------------------------------------------------
(* SpecHighlight: highlightValue applied to every small value and           *)
(* annotation.  Matched words are the query's words, of letters and digits. *)

ValChars == {"a", "A", "2", " "}
WordChars == {"a", "2"}

MatchedWordLists == SeqsUpTo(Strs(WordChars, MaxWordLen) \ {""}, MaxWords)

Annotations ==
    {NoAnnotation}
    \cup {[present |-> TRUE, matchLevel |-> "none",
           fullyHighlighted |-> FALSE, matchedWords |-> <<>>]}
    \cup {[present |-> TRUE, matchLevel |-> l, fullyHighlighted |-> f, matchedWords |-> w] :
             l \in {"partial", "full"}, f \in BOOLEAN, w \in MatchedWordLists \ {<<>>}}

InitHighlight ==
    /\ pc = "highlight"
    /\ hlVal \in Strs(ValChars, MaxValLen)
    /\ hlResult \in Annotations
    /\ chalkLevel \in {0, 1}
    /\ hlOut = ""
    /\ IdleRun /\ IdlePick /\ IdleFormat

HighlightValueStep ==
    /\ pc = "highlight"
    /\ hlOut' = highlightValue(hlVal, hlResult, chalkLevel)
    /\ pc' = "highlighted"
    /\ UNCHANGED <<program, columns, stdoutColumns, filters, hits, widths, colIndices, path,
                   pickedCols, out, err, vals, colSpec, formatted, hlVal, hlResult,
                   chalkLevel>>

NextHighlight == HighlightValueStep

SpecHighlight == InitHighlight /\ [][NextHighlight]_vars

----------------------------------------------------------------------------
(* SpecPick: pickColumns applied to every small catalog, list of widths and *)
(* terminal width.                                                          *)

ColumnKinds ==
    {[importance |-> -1, mutexGroup |-> ""],
     [importance |-> 10, mutexGroup |-> ""],
     [importance |-> 25, mutexGroup |-> "desc"],
     [importance |-> 35, mutexGroup |-> ""]}

SmallColumn(kind) ==
    [header |-> "col", align |-> "none", maxWidth |-> 0,
     importance |-> kind.importance, mutexGroup |-> kind.mutexGroup,
     format |-> "", highlight |-> ""]

InitPick ==
    /\ pc = "pick"
    /\ columns \in {[i \in 1..NumCols |-> SmallColumn(k[i])] : k \in [1..NumCols -> ColumnKinds]}
    /\ widths \in [1..NumCols -> 1..MaxWidth]
    /\ stdoutColumns \in 0..MaxTermCols
    /\ colIndices = <<>>
    /\ path = ""
    /\ IdleRun /\ IdleFormat /\ IdleHighlight

PickColumnsStep ==
    /\ pc = "pick"
    /\ \E result \in SolverReports(LPModel(columns, widths, stdoutColumns)) :
          LET picked == pickColumns(columns, widths, stdoutColumns, result)
          IN  colIndices' = picked.indices /\ path' = picked.path
    /\ pc' = "picked"
    /\ UNCHANGED <<program, columns, stdoutColumns, filters, hits, widths, pickedCols, out,
                   err, vals, colSpec, formatted, hlVal, hlResult, chalkLevel, hlOut>>

NextPick == PickColumnsStep

SpecPick == InitPick /\ [][NextPick]_vars

----------------------------------------------------------------------------
(* The column catalog (const columns).  format names the column's format    *)
(* function, highlight the field of _highlightResult its highlight reads    *)
(* ("" when the column has none).                                           *)

Column(header, align, maxWidth, importance, mutexGroup, format, highlight) ==
    [header |-> header, align |-> align, maxWidth |-> maxWidth,
     importance |-> importance, mutexGroup |-> mutexGroup,
     format |-> format, highlight |-> highlight]

Catalog ==
    << Column("DLs", "right", 0, 3, "", "DLs", ""),
       Column("pop", "none", 0, 2, "", "pop", ""),
       Column("name", "none", 0, 100, "", "name", "name"),
       Column("types", "none", 0, 100, "types", "typesLong", ""),
       Column("types", "none", 0, 80, "types", "typesShort", ""),
       Column("npm", "none", 0, -1, "", "npm", ""),
       Column("yarn", "none", 0, -1, "", "yarn", ""),
       Column("description", "none", 40, 25, "desc", "description", "description"),
       Column("description", "none", 60, 30, "desc", "description", "description"),
       Column("description", "none", 0, 35, "desc", "description", "description"),
       Column("date", "none", 0, 1, "", "date", ""),
       Column("updated", "none", 0, 5, "", "updated", ""),
       Column("homepage", "none", 0, 10, "", "homepage", ""),
       Column("repo", "none", 0, -1, "", "repo", "") >>

----------------------------------------------------------------------------
(* Records (Hit).  A null or absent string field is "", which the source's  *)
(* `||` treats alike; modified carries moment's two renderings of it.       *)

\* U+1F525, two UTF-16 code units
Fire == "##"

makeInstallCommand(cmd, h, exact) ==
    LET install == cmd \o " " \o (IF exact THEN "-E " ELSE "") \o h.objectID
    IN  IF h.types.ts = "included" THEN install
        ELSE IF h.types.ts = "definitely-typed"
             THEN install \o " && " \o cmd \o " -D" \o (IF exact THEN "E" ELSE "")
                  \o " " \o h.types.definitelyTyped
             ELSE ""

\* he's decode, of the entity the sample records use
decode(text) == ReplaceFrom(text, "&amp;", "&", 1)

FormatCell(format, h, opts) ==
    CASE format = "DLs" -> h.humanDownloadsLast30Days
      [] format = "pop" -> IF h.popular THEN Fire ELSE ""
      [] format = "name" -> h.objectID
      [] format = "typesLong" ->
            IF h.types.ts = "included" THEN "<bundled>"
            ELSE IF h.types.ts = "definitely-typed" THEN h.types.definitelyTyped ELSE ""
      [] format = "typesShort" ->
            IF h.types.ts = "included" THEN "<inc>"
            ELSE IF h.types.ts = "definitely-typed" THEN "dt" ELSE ""
      [] format = "npm" -> makeInstallCommand("npm install", h, opts.exact)
      [] format = "yarn" -> makeInstallCommand("yarn add", h, opts.exact)
      [] format = "description" -> decode(h.description)
      [] format = "date" -> h.modified.date
      [] format = "updated" -> h.modified.fromNow
      [] format = "homepage" ->
            IF h.homepage # "" THEN h.homepage
            ELSE IF h.repository.present THEN h.repository.url ELSE ""
      [] format = "repo" -> IF h.repository.present THEN h.repository.url ELSE ""

formatResult(cols, h, opts) == [j \in 1..Len(cols) |-> FormatCell(cols[j].format, h, opts)]

SampleHits ==
    {[objectID |-> "ab", humanDownloadsLast30Days |-> "5k", popular |-> TRUE,
      types |-> [ts |-> "included", definitelyTyped |-> ""],
      description |-> "TypeScript bindings for the ab &amp; abc toolkits", homepage |-> "https://ab-toolkit.example.org",
      modified |-> [date |-> "2020-01-02", fromNow |-> "2 years ago"],
      repository |-> [present |-> TRUE, url |-> "https://github.com/acme/ab-toolkit"],
      highlightName |-> [present |-> TRUE, matchLevel |-> "full",
                         fullyHighlighted |-> TRUE, matchedWords |-> <<"ab">>],
      highlightDescription |-> [present |-> TRUE, matchLevel |-> "none",
                                fullyHighlighted |-> FALSE, matchedWords |-> <<>>]],
     [objectID |-> "abc", humanDownloadsLast30Days |-> "120", popular |-> FALSE,
      types |-> [ts |-> "definitely-typed", definitelyTyped |-> "@types/abc"],
      description |-> "", homepage |-> "",
      modified |-> [date |-> "2021-11-30", fromNow |-> "a month ago"],
      repository |-> [present |-> TRUE, url |-> "https://github.com/acme/abc-toolkit"],
      highlightName |-> [present |-> TRUE, matchLevel |-> "partial",
                         fullyHighlighted |-> FALSE, matchedWords |-> <<"ab">>],
      highlightDescription |-> NoAnnotation]}

----------------------------------------------------------------------------------------------------------------------------------------
(* applyFlags *)

AdjustedToFirst(cols, header, newImportance) ==
    LET first == CHOOSE j \in 1..Len(cols) :
                    /\ cols[j].header = header
                    /\ \A k \in 1..(j - 1) : cols[k].header # header
    IN  [cols EXCEPT ![first].importance = newImportance]

\* the loop of adjustImportance: every column with this header
AdjustedTo(cols, header, newImportance) ==
    [j \in 1..Len(cols) |->
        IF cols[j].header = header
        THEN [cols[j] EXCEPT !.importance = newImportance] ELSE cols[j]]

\* adjustImportance on the catalog st.cols, unless an earlier call threw
adjustImportance(st, header, newImportance) ==
    IF st.thrown # "" THEN st
    ELSE IF \E j \in 1..Len(st.cols) : st.cols[j].header = header
         THEN [st EXCEPT !.cols = AdjustedTo(st.cols, header, newImportance)]
         ELSE [st EXCEPT !.thrown = "Unable to find column with header " \o header]

IfFlag(flag, st, header, newImportance) ==
    IF flag THEN adjustImportance(st, header, newImportance) ELSE st

FilterFlags == <<"untyped", "dt", "bundled">>

\* `${flags}`: the array's elements joined by commas
FilterFlagsText == "untyped,dt,bundled"

FILTERS ==
    [default |-> "(types.ts:\"definitely-typed\" OR types.ts:\"included\") AND NOT owner.name:DefinitelyTyped",
     dt |-> "types.ts:\"definitely-typed\"",
     bundled |-> "types.ts:\"included\" AND NOT owner.name:DefinitelyTyped",
     untyped |-> "NOT owner.name:DefinitelyTyped"]

TooManyFiltersAllThree(opts) ==
    Cardinality({k \in 1..Len(FilterFlags) : opts[FilterFlags[k]]}) > 2

\* _.sum(flags.map(flag => program[flag] ? 1 : 0)) > 1
TooManyFilters(opts) ==
    Cardinality({k \in 1..Len(FilterFlags) : opts[FilterFlags[k]]}) > 1

\* applyFlags: the catalog it leaves, what it threw ("" when it returned) and
\* the filters it returned
applyFlags(cols, opts) ==
    LET s0 == [cols |-> cols, thrown |-> ""]
        s1 == IfFlag(opts.yarn, s0, "yarn", 1000)
        s2 == IfFlag(opts.npm, s1, "npm", 1000)
        s3 == IfFlag(opts.yarn \/ opts.npm, s2, "types", 25)
        s4 == IfFlag(opts.repo, s3, "repo", 1000)
        s5 == IfFlag(opts.repo, s4, "homepage", -1)
    IN  IF s5.thrown # "" THEN [cols |-> s5.cols, thrown |-> s5.thrown, filters |-> ""]
        ELSE IF TooManyFilters(opts)
             THEN [cols |-> s5.cols, filters |-> "",
                   thrown |-> "May only specify one of " \o FilterFlagsText]
             ELSE [cols |-> s5.cols, thrown |-> "",
                   filters |-> IF opts.untyped THEN FILTERS.untyped
                               ELSE IF opts.dt THEN FILTERS.dt
                               ELSE IF opts.bundled THEN FILTERS.bundled
                               ELSE FILTERS.default]

----------------------------------------------------------------------------
(* printTable *)

\* cols: per column, the upper-cased header and then the column's cell of each row
TableColumns(cols, rows) ==
    [j \in 1..Len(cols) |->
        <<ToUpperCase(cols[j].header)>> \o [r \in 1..Len(rows) |-> rows[r][j]]]

FormattedCols(cols, rows) ==
    LET cs == TableColumns(cols, rows)
    IN  [j \in 1..Len(cols) |-> formatColumn(cs[j], cols[j])]

\* formattedCols.map(c => c[0].length)
TableWidths(cols, rows) ==
    LET f == FormattedCols(cols, rows)
    IN  Evaluated([j \in 1..Len(cols) |-> Len(f[j][1])])

\* the column's highlight: highlightValue(v, h._highlightResult.<field>)
HighlightCell(col, v, h, level) ==
    highlightValue(v, IF col.highlight = "name" THEN h.highlightName
                      ELSE h.highlightDescription, level)

PickedCols(cols, rows, hs, indices, level) ==
    LET f == FormattedCols(cols, rows)
    IN  [k \in 1..Len(indices) |->
            LET i == indices[k]
            IN  IF cols[i].highlight = "" THEN f[i]
                ELSE [j \in 1..Len(f[i]) |->
                        IF j > 1 THEN HighlightCell(cols[i], f[i][j], hs[j - 1], level)
                        ELSE f[i][j]]]

\* cells.join(' ')
RECURSIVE Join(_, _)
Join(cells, sep) ==
    IF Len(cells) = 0 THEN ""
    ELSE IF Len(cells) = 1 THEN cells[1]
    ELSE cells[1] \o sep \o Join(Tail(cells), sep)

TableLineReversed(picked, i) ==
    Join([k \in 1..Len(picked) |-> picked[k][Len(picked[k]) + 1 - i]], " ")

\* line i of the table (the header is line 1): pickedCols.map(c => c[i]).join(' ')
TableLine(picked, i) == Join([k \in 1..Len(picked) |-> picked[k][i]], " ")

----------------------------------------------------------------------------
(* Spec: one run of the program (the async function at the end of the       *)
(* file).  out holds what console.log wrote, in order: the table's lines    *)
(* (kind "table"), the notes the run writes around the table ("note") and   *)
(* the lines of --debug ("debug").  program.exact is left off.              *)

TermWidths == {0, 30}
DefaultNum == 10

\* the records of SampleHits in every order, at most n of them
RECURSIVE Rankings(_)
Rankings(n) ==
    IF n = 0 THEN {<<>>}
    ELSE LET T == Rankings(n - 1)
         IN  T \cup {Append(t, h) : t \in {t \in T : Len(t) = n - 1},
                                   h \in SampleHits}

\* what the search can answer: at most hitsPerPage records, each once, each
\* one the filters let through
PassesFilters(h, f) ==
    IF f = FILTERS.dt THEN h.types.ts = "definitely-typed"
    ELSE IF f = FILTERS.bundled THEN h.types.ts = "included"
    ELSE IF f = FILTERS.default THEN h.types.ts \in {"definitely-typed", "included"}
    ELSE TRUE

SearchResults(f, num) ==
    {hs \in Rankings(MaxHits) :
        /\ Len(hs) <= num
        /\ \A a, b \in 1..Len(hs) : hs[a] = hs[b] => a = b
        /\ \A a \in 1..Len(hs) : PassesFilters(hs[a], f)}

DebugLines(opts, texts) ==
    IF opts.debug THEN [k \in 1..Len(texts) |-> [kind |-> "debug", text |-> texts[k]]]
    ELSE <<>>

TableLines(o) == SelectSeq(o, LAMBDA l : l.kind = "table")

Init ==
    /\ pc = "start"
    /\ program \in [yarn : BOOLEAN, npm : BOOLEAN, repo : BOOLEAN, exact : {FALSE},
                    debug : BOOLEAN, untyped : BOOLEAN, dt : BOOLEAN,
                    bundled : BOOLEAN, num : {1, DefaultNum}]
    /\ columns = Catalog
    /\ stdoutColumns \in TermWidths
    /\ chalkLevel = 1
    /\ filters = "" /\ hits = <<>> /\ widths = <<>> /\ colIndices = <<>> /\ path = ""
    /\ pickedCols = <<>> /\ out = <<>> /\ err = ""
    /\ IdleFormat
    /\ hlVal = "" /\ hlResult = NoAnnotation /\ hlOut = ""

\* const {filters} = applyFlags(); what it throws reaches the final .catch,
\* which writes it with console.error
ApplyFlags ==
    /\ pc = "start"
    /\ LET r == applyFlags(columns, program)
       IN  /\ columns' = r.cols
           /\ filters' = r.filters
           /\ IF r.thrown # ""
              THEN pc' = "failed" /\ err' = r.thrown
              ELSE pc' = "search" /\ err' = err
    /\ UNCHANGED <<program, stdoutColumns, hits, widths, colIndices, path, pickedCols,
                   out, vals, colSpec, formatted, hlVal, hlResult, chalkLevel, hlOut>>

\* await index.search(query, {hitsPerPage: num, filters, ...})
Search ==
    /\ pc = "search"
    /\ hits' \in SearchResults(filters, program.num)
    /\ out' = out \o DebugLines(program, <<"Algolia responded in">>)
    /\ pc' = "searched"
    /\ UNCHANGED <<program, columns, stdoutColumns, filters, widths, colIndices, path,
                   pickedCols, err, vals, colSpec, formatted, hlVal, hlResult,
                   chalkLevel, hlOut>>

\* hits.length === 0
NoResults ==
    /\ pc = "searched" /\ Len(hits) = 0
    /\ out' = Append(out, [kind |-> "note",
                text |-> "No results. Try dtsearch -u to include packages without types."])
    /\ pc' = "done"
    /\ UNCHANGED <<program, columns, stdoutColumns, filters, hits, widths, colIndices,
                   path, pickedCols, err, vals, colSpec, formatted, hlVal, hlResult,
                   chalkLevel, hlOut>>

\* const table = hits.map(formatResult), and printTable up to its loop
PrintTableBegin ==
    /\ pc = "searched" /\ Len(hits) # 0
    /\ LET rows == [r \in 1..Len(hits) |-> formatResult(columns, hits[r], program)]
           ws == TableWidths(columns, rows)
       IN  /\ widths' = ws
           /\ \E result \in SolverReports(LPModel(columns, ws, stdoutColumns)) :
                 LET picked == pickColumns(columns, ws, stdoutColumns, result)
                 IN  /\ colIndices' = picked.indices
                     /\ path' = picked.path
                     /\ pickedCols' = PickedCols(columns, rows, hits, picked.indices,
                                                 chalkLevel)
    /\ out' = out \o DebugLines(program, <<"Got results", "result",
                                           "Column LP model:", "LP result:">>)
    /\ pc' = "rows"
    /\ UNCHANGED <<program, columns, stdoutColumns, filters, hits, err, vals, colSpec,
                   formatted, hlVal, hlResult, chalkLevel, hlOut>>

\* one pass of for (let i = 0; i <= rows.length; i++)
PrintRow ==
    /\ pc = "rows"
    /\ LET i == Len(TableLines(out)) + 1
       IN  /\ out' = Append(out, [kind |-> "table", text |-> TableLine(pickedCols, i)])
           /\ pc' = IF i = Len(hits) + 1 THEN "printed" ELSE "rows"
    /\ UNCHANGED <<program, columns, stdoutColumns, filters, hits, widths, colIndices,
                   path, pickedCols, err, vals, colSpec, formatted, hlVal, hlResult,
                   chalkLevel, hlOut>>

\* if (hits.length < num) console.log(...), and the function returns
Finish ==
    /\ pc = "printed"
    /\ out' = IF Len(hits) < program.num
              THEN Append(out, [kind |-> "note",
                      text |-> "\nOnly " \o ToString(Len(hits)) \o " result"
                               \o (IF Len(hits) > 1 THEN "s" ELSE "")
                               \o ". Try dtsearch -u to include packages without types."])
              ELSE out
    /\ pc' = "done"
    /\ UNCHANGED <<program, columns, stdoutColumns, filters, hits, widths, colIndices,
                   path, pickedCols, err, vals, colSpec, formatted, hlVal, hlResult,
                   chalkLevel, hlOut>>

Next == ApplyFlags \/ Search \/ NoResults \/ PrintTableBegin \/ PrintRow \/ Finish

Spec == Init /\ [][Next]_vars

----------------------------------------------------------------------------
(* Properties.                                                              *)

Range(sq) == {sq[k] : k \in 1..Len(sq)}

\* the width a selection takes: each column's width and one separator
TakenWidth(S) == SumOver([i \in 1..Len(columns) |-> 1 + widths[i]], S)

TotalImportance(S) == SumOver([i \in 1..Len(columns) |-> columns[i].importance], S)

OnePerMutexGroup(S) ==
    \A a, b \in S :
        (a # b /\ columns[a].mutexGroup # "") => columns[a].mutexGroup # columns[b].mutexGroup

\* a selection that meets the width budget and the mutex groups
Fits(S) == TakenWidth(S) <= Budget(stdoutColumns) + 1 /\ OnePerMutexGroup(S)

Increasing(sq) == \A a, b \in 1..Len(sq) : a < b => sq[a] < sq[b]

\* C1: a selection returned on the solver's feasible path takes at most
\* budget + 1 in width, counting 1 + width per selected column, and holds no
\* two columns of one mutex group.
C1_SelectionFits ==
    (pc = "picked" /\ path = "solver") => Fits(Range(colIndices))

C1_Witness ==
    /\ pc = "picked" /\ path = "solver" /\ stdoutColumns # 0
    /\ TakenWidth(Range(colIndices)) = Budget(stdoutColumns) + 1
    /\ \E a \in Range(colIndices), b \in 1..Len(columns) \ Range(colIndices) :
          columns[a].mutexGroup # "" /\ columns[a].mutexGroup = columns[b].mutexGroup

\* C2: the selection the optimizer returns is optimal: no subset of the
\* columns that meets the width budget and the mutex groups has a strictly
\* greater total importance.
C2_SelectionOptimal ==
    (pc = "picked" /\ path = "solver") =>
        \A S \in SUBSET (1..Len(columns)) :
            Fits(S) => TotalImportance(S) <= TotalImportance(Range(colIndices))

C2_Witness ==
    /\ pc = "picked" /\ path = "solver" /\ stdoutColumns # 0
    /\ \E i \in 1..Len(columns) \ Range(colIndices) : columns[i].importance > 0
    /\ \E S \in SUBSET (1..Len(columns)) :
          /\ Fits(S) /\ S # {} /\ S # Range(colIndices)
          /\ TotalImportance(S) < TotalImportance(Range(colIndices))
          /\ Cardinality(S) > Cardinality(Range(colIndices))

\* C3: when the solver reports infeasibility the selection is exactly the
\* columns of importance 25 or more, in catalog order, whatever their widths
\* and mutex groups: a function of the catalog alone.
C3_FallbackIsThreshold ==
    (pc = "picked" /\ path = "fallback") =>
        /\ Range(colIndices) = {i \in 1..Len(columns) : columns[i].importance >= 25}
        /\ Increasing(colIndices)

C3_Witness ==
    /\ pc = "picked" /\ path = "fallback" /\ stdoutColumns # 0
    /\ \E i \in 1..Len(columns) : columns[i].importance = 25 /\ i \in Range(colIndices)
    /\ \E i \in 1..Len(columns) : columns[i].importance < 25
    /\ ~OnePerMutexGroup(Range(colIndices))
    /\ TakenWidth(Range(colIndices)) > Budget(stdoutColumns) + 1

\* C4: with a terminal width of 0 and a catalog of two columns of importance
\* 25 or more and one below, the fallback is taken and the selection is
\* exactly the two columns of importance 25 or more.
C4_ZeroWidthTakesFallback ==
    (/\ pc = "picked" /\ stdoutColumns = 0
     /\ Cardinality({i \in 1..Len(columns) : columns[i].importance >= 25}) = 2
     /\ Cardinality({i \in 1..Len(columns) : columns[i].importance < 25}) = 1)
    => (/\ path = "fallback"
        /\ Range(colIndices) = {i \in 1..Len(columns) : columns[i].importance >= 25})

\* C5: no column whose importance is negative when pickColumns runs is in
\* the selection, on either return; the npm, yarn and repo columns are
\* selected only in a run with --npm, --yarn and --repo.
C5_NegativeNeverSelected ==
    pc \in {"rows", "printed", "done"} =>
        \A i \in Range(colIndices) :
            /\ columns[i].importance >= 0
            /\ columns[i].header = "npm" => program.npm
            /\ columns[i].header = "yarn" => program.yarn
            /\ columns[i].header = "repo" => program.repo

C5_Witness ==
    /\ pc = "rows" /\ path = "solver" /\ program.repo /\ program.yarn /\ ~program.npm
    /\ \E i \in Range(colIndices) : columns[i].header = "repo"
    /\ \E i \in Range(colIndices) : columns[i].header = "yarn"
    /\ \A i \in Range(colIndices) : columns[i].header \notin {"npm", "homepage"}
    /\ \E i \in 1..Len(columns) : columns[i].header = "homepage" /\ columns[i].importance < 0

\* the column's width: the longest value, capped by maxWidth when it is set
NaturalWidth ==
    LET longest == MaxOf({Len(vals[k]) : k \in 1..Len(vals)})
    IN  IF colSpec.maxWidth # 0 /\ colSpec.maxWidth < longest THEN colSpec.maxWidth
        ELSE longest

\* C6: every aligned cell is exactly width long: the first min(length, width)
\* characters of the value, and spaces in the other positions, in front for
\* a right-aligned column and behind otherwise.
C6_AlignedCell ==
    pc = "formatted" =>
        /\ Len(formatted) = Len(vals)
        /\ \A k \in 1..Len(vals) :
              LET v == vals[k]
                  cell == formatted[k]
                  w == NaturalWidth
                  n == Min(Len(v), w)
              IN  /\ Len(cell) = w
                  /\ IF colSpec.align = "right"
                     THEN /\ SubSeq(cell, w - n + 1, w) = SubSeq(v, 1, n)
                          /\ \A j \in 1..(w - n) : CharAt(cell, j) = " "
                     ELSE /\ SubSeq(cell, 1, n) = SubSeq(v, 1, n)
                          /\ \A j \in (n + 1)..w : CharAt(cell, j) = " "

C6_Witness ==
    /\ pc = "formatted" /\ colSpec.align = "right" /\ colSpec.maxWidth # 0
    /\ \E k \in 1..Len(vals) : Len(vals[k]) > NaturalWidth
    /\ \E k \in 1..Len(vals) :
          /\ 0 < Len(vals[k]) /\ Len(vals[k]) < NaturalWidth
          /\ formatted[k] = Spaces(NaturalWidth - Len(vals[k])) \o vals[k]

\* the text with every emphasis marker taken out, in one pass from the left
RECURSIVE StripFrom(_, _)
StripFrom(text, i) ==
    IF i > Len(text) THEN ""
    ELSE IF SubSeq(text, i, Min(Len(text), i + Len(BoldOpen) - 1)) = BoldOpen
         THEN StripFrom(text, i + Len(BoldOpen))
    ELSE IF SubSeq(text, i, Min(Len(text), i + Len(BoldClose) - 1)) = BoldClose
         THEN StripFrom(text, i + Len(BoldClose))
    ELSE CharAt(text, i) \o StripFrom(text, i + 1)

\* C7: highlighting never changes a cell's visible character count: the
\* result of highlightValue without its emphasis markers is as long as the
\* value it was given.
C7_VisibleLengthKept ==
    pc = "highlighted" => Len(StripFrom(hlOut, 1)) = Len(hlVal)

\* the line of record r as the catalog, the records and the selection give it
ExpectedLine(r) ==
    LET rows == [k \in 1..Len(hits) |-> formatResult(columns, hits[k], program)]
        f == FormattedCols(columns, rows)
        cell(i) == IF r = 0 \/ columns[i].highlight = "" THEN f[i][r + 1]
                   ELSE HighlightCell(columns[i], f[i][r + 1], hits[r], chalkLevel)
    IN  Join([k \in 1..Len(colIndices) |-> cell(colIndices[k])], " ")

\* C8: a run over zero records writes no line of the table; a run over N >= 1
\* records with a column selected writes N + 1: the header, then the line of
\* each record in the order of the records, and never a line more.
C8_LinesPerRecord ==
    /\ Len(TableLines(out)) <= (IF Len(hits) = 0 THEN 0 ELSE Len(hits) + 1)
    /\ \A n \in 1..Len(TableLines(out)) : TableLines(out)[n].text = ExpectedLine(n - 1)
    /\ (pc = "done" /\ Len(hits) >= 1 /\ Len(colIndices) >= 1) =>
           Len(TableLines(out)) = Len(hits) + 1

C8_Witness ==
    /\ pc = "done" /\ Len(hits) = 2 /\ Len(colIndices) >= 1
    /\ Len(TableLines(out)) = 3
    /\ TableLines(out)[2] # TableLines(out)[3]
    /\ TableLines(out)[2].text = ExpectedLine(1)

Contains(text, part) ==
    \E i \in 1..(Len(text) - Len(part) + 1) : SubSeq(text, i, i + Len(part) - 1) = part

Conflict == Cardinality({k \in 1..Len(FilterFlags) : program[FilterFlags[k]]}) > 1

\* C9: with more than one of untyped, dt and bundled the run fails in
\* applyFlags, with an error that names the options, before the search, the
\* formatting and the selection, and writes nothing; and a run that has ended
\* has written the whole table or no line of it.
C9_ConflictFailsFirst ==
    /\ Conflict =>
          /\ pc \in {"start", "failed"}
          /\ out = <<>> /\ hits = <<>> /\ widths = <<>> /\ colIndices = <<>>
          /\ pickedCols = <<>>
          /\ pc = "failed" =>
                \A k \in 1..Len(FilterFlags) :
                    program[FilterFlags[k]] => Contains(err, FilterFlags[k])
    /\ pc \in {"done", "failed"} =>
          Len(TableLines(out)) \in {0, Len(hits) + 1}

C9_Witness ==
    /\ pc = "failed" /\ program.dt /\ program.bundled /\ ~program.untyped
    /\ program.yarn /\ program.debug
    /\ Contains(err, "dt") /\ Contains(err, "bundled")
    /\ out = <<>>

\* the importance applyFlags leaves column j with
OverriddenImportance(j) ==
    LET h == Catalog[j].header
    IN  IF h = "yarn" /\ program.yarn THEN 1000
        ELSE IF h = "npm" /\ program.npm THEN 1000
        ELSE IF h = "types" /\ (program.yarn \/ program.npm) THEN 25
        ELSE IF h = "repo" /\ program.repo THEN 1000
        ELSE IF h = "homepage" /\ program.repo THEN -1
        ELSE Catalog[j].importance

\* C10: the override step changes the importance of the columns an active
\* option names and nothing else: before it the catalog is as declared, and
\* from its end through the rest of the run every column is the declared one
\* with the importance its options give it.
C10_OverridesOnly ==
    /\ Len(columns) = Len(Catalog)
    /\ pc = "start" => columns = Catalog
    /\ pc # "start" =>
          \A j \in 1..Len(Catalog) :
              columns[j] = [Catalog[j] EXCEPT !.importance = OverriddenImportance(j)]

C10_Witness ==
    /\ pc = "rows" /\ program.yarn /\ program.repo /\ ~program.npm
    /\ columns # Catalog
    /\ \A j \in 1..Len(columns) : columns[j].header = "types" => columns[j].importance = 25
    /\ \E j \in 1..Len(columns) : columns[j].header = "npm" /\ columns[j].importance = -1

====
